---- MODULE Spec2Model ----
(***************************************************************************)
(* Model of scripts/rhodl_ratio_raw_data.py: the fetch -> normalize ->     *)
(* save -> spreadsheet pipeline of the RHODL ratio script.                 *)
(*                                                                         *)
(* Strings are sequences of code points, so that Python's string order     *)
(* (used by the sort in normalize) and string equality (used by the date   *)
(* membership test in append_only_cols_ab) are computed, not assumed.      *)
(* A worksheet cell is a record [kind, v]: kind "str" with the code points *)
(* of the text, or kind "num" with the one-element sequence of the number. *)
(* The empty cell is the empty string, which is what the Sheets value API  *)
(* returns for it.                                                          *)
(***************************************************************************)
EXTENDS Integers, Sequences, FiniteSets, TLC

VARIABLES pc, env, attempt, responses, lastErr, raw, records, file, sheet,
          wsPre, rets, sheetOps, fileWrites, exitMsg, runs, lastOp, atStart

vars == <<pc, env, attempt, responses, lastErr, raw, records, file, sheet,
          wsPre, rets, sheetOps, fileWrites, exitMsg, runs, lastOp, atStart>>

(***************************************************************************)
(* Bounds of the model.                                                    *)
(***************************************************************************)
MaxRows == 3        \* longest list of API rows given to normalize
MaxSheetRows == 2   \* most rows of prior content on the worksheet
MaxRecs == 2        \* longest record list given to a sink operation
MaxRuns == 2        \* most invocations of the script in one behaviour

(***************************************************************************)
(* Strings and cells.                                                      *)
(***************************************************************************)
Str(s) == [kind |-> "str", v |-> s]
Num(n) == [kind |-> "num", v |-> <<n>>]
Empty == Str(<<>>)

\* "Date" and "RHODL Ratio" as code points
DateHeader == Str(<<68, 97, 116, 101>>)
RatioHeader == Str(<<82, 72, 79, 68, 76, 32, 82, 97, 116, 105, 111>>)
HeaderRow == <<DateHeader, RatioHeader>>

RECURSIVE StrLess(_, _)
\* Python's str <: lexicographic on code points, a proper prefix is smaller
StrLess(a, b) ==
    IF b = <<>> THEN FALSE
    ELSE IF a = <<>> THEN TRUE
    ELSE IF Head(a) # Head(b) THEN Head(a) < Head(b)
    ELSE StrLess(Tail(a), Tail(b))

(***************************************************************************)
(* normalize: epoch milliseconds -> UTC calendar date -> ISO string.       *)
(***************************************************************************)
\* datetime.fromtimestamp(ts_ms / 1000, tz=utc).date(): the day number of
\* the instant, counted from 1970-01-01, rounding toward minus infinity
UtcDay(ts_ms) == (ts_ms \div 1000) \div 86400

\* the proleptic Gregorian <<year, month, day>> of a day number
CivilFromDays(days) ==
    LET z == days + 719468
        era == z \div 146097
        doe == z - era * 146097
        yoe == (doe - doe \div 1460 + doe \div 36524 - doe \div 146096) \div 365
        doy == doe - (365 * yoe + yoe \div 4 - yoe \div 100)
        mp == (5 * doy + 2) \div 153
        d == doy - (153 * mp + 2) \div 5 + 1
        m == IF mp < 10 THEN mp + 3 ELSE mp - 9
        y == yoe + era * 400 + (IF m <= 2 THEN 1 ELSE 0)
    IN <<y, m, d>>

Digit(n) == 48 + n

\* date.isoformat(): YYYY-MM-DD, zero padded
IsoFormat(ymd) ==
    LET y == ymd[1]
        m == ymd[2]
        d == ymd[3]
    IN <<Digit((y \div 1000) % 10), Digit((y \div 100) % 10),
         Digit((y \div 10) % 10), Digit(y % 10), 45,
         Digit(m \div 10), Digit(m % 10), 45,
         Digit(d \div 10), Digit(d % 10)>>

DateOf(ts_ms) == IsoFormat(CivilFromDays(UtcDay(ts_ms)))

NoPrice == -1   \* marks a row without a "price" key

\* one iteration of the loop of normalize; int() and float() keep the value
\* of the numeric inputs drawn here
MakeRecord(row) ==
    [date |-> DateOf(row.timestamp),
     rhodl_ratio |-> row.rhodl_ratio,
     price |-> IF row.price = NoPrice THEN 0 ELSE row.price,
     timestamp_ms |-> row.timestamp]

RECURSIVE MapRecords(_)
MapRecords(rows) ==
    IF rows = <<>> THEN <<>>
    ELSE <<MakeRecord(Head(rows))>> \o MapRecords(Tail(rows))

RECURSIVE InsertByDate(_, _)
\* rec goes after every element whose date is not greater: equal dates keep
\* their input order, as in Python's stable list.sort
InsertByDate(sorted, rec) ==
    IF sorted = <<>> THEN <<rec>>
    ELSE IF StrLess(rec.date, sorted[Len(sorted)].date)
         THEN InsertByDate(SubSeq(sorted, 1, Len(sorted) - 1), rec)
              \o <<sorted[Len(sorted)]>>
         ELSE sorted \o <<rec>>

RECURSIVE SortByDate(_)
SortByDate(out) ==
    IF out = <<>> THEN <<>>
    ELSE InsertByDate(SortByDate(SubSeq(out, 1, Len(out) - 1)), out[Len(out)])

UnsortedByDate(out) == out

RECURSIVE DictPut(_, _)
\* d[rec.date] = rec on an insertion-ordered dict held as its value list:
\* an existing key keeps its position and takes the new value
DictPut(d, rec) ==
    IF d = <<>> THEN <<rec>>
    ELSE IF Head(d).date = rec.date THEN <<rec>> \o Tail(d)
    ELSE <<Head(d)>> \o DictPut(Tail(d), rec)

RECURSIVE DictPutKeepFirst(_, _)
DictPutKeepFirst(d, rec) ==
    IF d = <<>> THEN <<rec>>
    ELSE IF Head(d).date = rec.date THEN d
    ELSE <<Head(d)>> \o DictPutKeepFirst(Tail(d), rec)

RECURSIVE DedupByDate(_)
\* list({rec["date"]: rec for rec in out}.values())
DedupByDate(out) ==
    IF out = <<>> THEN <<>>
    ELSE DictPut(DedupByDate(SubSeq(out, 1, Len(out) - 1)), out[Len(out)])

RECURSIVE DedupKeepFirst(_)
DedupKeepFirst(out) ==
    IF out = <<>> THEN <<>>
    ELSE DictPutKeepFirst(DedupKeepFirst(SubSeq(out, 1, Len(out) - 1)),
                          out[Len(out)])

SortStage(out) == SortByDate(out)

DedupStage(out) == DedupByDate(out)

normalize(rows) == DedupStage(SortStage(MapRecords(rows)))

(***************************************************************************)
(* The worksheet: a sequence of rows <<A, B, C>>, column C standing for    *)
(* every column beyond B.  Rows past the last one are empty, and trailing  *)
(* empty rows are not kept.  The operators below are the gspread calls the *)
(* script makes, with the Sheets semantics of each.                        *)
(***************************************************************************)
EmptyRow == <<Empty, Empty, Empty>>

RECURSIVE Trim(_)
Trim(cells) ==
    IF cells = <<>> THEN <<>>
    ELSE IF cells[Len(cells)] = EmptyRow
         THEN Trim(SubSeq(cells, 1, Len(cells) - 1))
         ELSE cells

RowAt(cells, r) == IF r <= Len(cells) THEN cells[r] ELSE EmptyRow

Max(a, b) == IF a >= b THEN a ELSE b

\* the text the value API returns for a cell (the numbers of the model are
\* one digit long)
ToText(cell) == IF cell.kind = "num" THEN <<Digit(cell.v[1])>> ELSE cell.v

\* ws.col_values(col): the column's texts down to its last non-empty cell
col_values(cells, col) ==
    LET used == {r \in 1..Len(cells) : cells[r][col] # Empty}
        last == IF used = {} THEN 0 ELSE CHOOSE r \in used : \A q \in used : q <= r
    IN [r \in 1..last |-> ToText(cells[r][col])]

\* ws.batch_clear(["A:B"]): the values of columns A and B, all rows
batch_clear_AB(cells) ==
    Trim([r \in 1..Len(cells) |-> <<Empty, Empty, cells[r][3]>>])

updateCells_clear_every_column(cells, startRowIndex, startColumnIndex, endColumnIndex) ==
    LET cleared(r, c) ==
            IF r > startRowIndex /\ c > startColumnIndex THEN Empty ELSE cells[r][c]
    IN Trim([r \in 1..Len(cells) |->
                <<cleared(r, 1), cleared(r, 2), cleared(r, 3)>>])

\* spreadsheet.batch_update with one updateCells request that carries a
\* range and fields = userEnteredValue but no rows: the value of every cell
\* of the range is cleared.  Indices are zero-based, the end exclusive, and
\* the range has no endRowIndex.
updateCells_clear(cells, startRowIndex, startColumnIndex, endColumnIndex) ==
    LET cleared(r, c) ==
            IF r > startRowIndex /\ c > startColumnIndex /\ c <= endColumnIndex
            THEN Empty ELSE cells[r][c]
    IN Trim([r \in 1..Len(cells) |->
                <<cleared(r, 1), cleared(r, 2), cleared(r, 3)>>])

\* ws.update(range_name="A1:B<n>", values=rows): rows written from row 1
\* into columns A and B
update_AB(cells, rows) ==
    Trim([r \in 1..Max(Len(cells), Len(rows)) |->
            IF r <= Len(rows)
            THEN <<rows[r][1], rows[r][2], RowAt(cells, r)[3]>>
            ELSE cells[r]])

\* ws.append_rows(rows): rows written after the last row of the sheet that
\* holds data, from column A
append_rows(cells, rows) ==
    cells \o [r \in 1..Len(rows) |-> <<rows[r][1], rows[r][2], Empty>>]

\* [r["date"], r["rhodl_ratio"]], written RAW: a string and a number
SinkRow(rec) == <<Str(rec.date), Num(rec.rhodl_ratio)>>

RECURSIVE SinkRows(_)
SinkRows(recs) ==
    IF recs = <<>> THEN <<>>
    ELSE <<SinkRow(Head(recs))>> \o SinkRows(Tail(recs))

NoClear(cells, hasBatchClear) == cells

\* the try/except of write_cols_ab_overwrite
ClearAB(cells, hasBatchClear) ==
    IF hasBatchClear THEN batch_clear_AB(cells)
    ELSE updateCells_clear(cells, 0, 0, 2)

write_cols_ab_overwrite(cells, recs, hasBatchClear) ==
    LET rows == <<HeaderRow>> \o SinkRows(recs)
    IN update_AB(ClearAB(cells, hasBatchClear), rows)

Range(s) == {s[i] : i \in 1..Len(s)}

ExistingDatesFromRow3(existing) ==
    IF existing = <<>> THEN {}
    ELSE {existing[i] : i \in 3..Len(existing)} \ {<<>>}

\* set(x for x in existing[1:] if x), or set() when column A is empty
ExistingDates(existing) ==
    IF existing = <<>> THEN {}
    ELSE {existing[i] : i \in 2..Len(existing)} \ {<<>>}

AllRows(recs, dates) == SinkRows(recs)

RECURSIVE MissingRows(_, _)
\* [[r["date"], r["rhodl_ratio"]] for r in records if r["date"] not in dates]
MissingRows(recs, dates) ==
    IF recs = <<>> THEN <<>>
    ELSE (IF Head(recs).date \notin dates THEN <<SinkRow(Head(recs))>> ELSE <<>>)
         \o MissingRows(Tail(recs), dates)

\* the worksheet after append_only_cols_ab, and the value it returns
append_only_cols_ab(cells, recs) ==
    LET existing == col_values(cells, 1)
        withHeader == IF existing = <<>> THEN update_AB(cells, <<HeaderRow>>)
                      ELSE cells
        new_rows == MissingRows(recs, ExistingDates(existing))
    IN [cells |-> IF new_rows # <<>> THEN append_rows(withHeader, new_rows)
                  ELSE withHeader,
        ret |-> Len(new_rows)]

(***************************************************************************)
(* load_env and fetch_rhodl_json.                                          *)
(***************************************************************************)
RequiredKeys == <<"COINGLASS_API_KEY", "GOOGLE_SHEET_ID", "GOOGLE_SERVICE_ACCOUNT">>

NoExit == [kind |-> "none", detail |-> <<>>]

\* the names of RequiredKeys without a non-empty value, in that order
Missing(e) ==
    LET pick(i) == IF RequiredKeys[i] \in e.keys THEN <<>> ELSE <<RequiredKeys[i]>>
    IN pick(1) \o pick(2) \o pick(3)

load_env_no_key_check(e) ==
    IF ~e.dotenv THEN [kind |-> "no_dotenv", detail |-> <<>>]
    ELSE IF ~e.saFile THEN [kind |-> "no_service_account", detail |-> <<>>]
    ELSE NoExit

\* the sys.exit message of load_env, or NoExit when it returns the config
load_env(e) ==
    IF ~e.dotenv THEN [kind |-> "no_dotenv", detail |-> <<>>]
    ELSE IF Missing(e) # <<>> THEN [kind |-> "missing_keys", detail |-> Missing(e)]
    ELSE IF ~e.saFile THEN [kind |-> "no_service_account", detail |-> <<>>]
    ELSE NoExit

max_retries == 3

NoDoc == [shape |-> "none", hasData |-> FALSE, data |-> <<>>]

ApiFailed(err) == [kind |-> "api_failed", detail |-> <<err>>]

\* one iteration of the retry loop: n is the number of this attempt, out the
\* outcome of its request, err the value of last_err before it
fetch_attempt_first_err(n, out, err) ==
    IF out.ok
    THEN [pc |-> "shape", raw |-> out.doc, lastErr |-> err, exit |-> NoExit]
    ELSE LET e == IF err = "" THEN out.err ELSE err
         IN IF n < max_retries
            THEN [pc |-> "fetch", raw |-> NoDoc, lastErr |-> e, exit |-> NoExit]
            ELSE [pc |-> "fatal", raw |-> NoDoc, lastErr |-> e,
                  exit |-> ApiFailed(e)]

fetch_attempt(n, out, err) ==
    IF out.ok
    THEN [pc |-> "shape", raw |-> out.doc, lastErr |-> err, exit |-> NoExit]
    ELSE IF n < max_retries
         THEN [pc |-> "fetch", raw |-> NoDoc, lastErr |-> out.err, exit |-> NoExit]
         ELSE [pc |-> "fatal", raw |-> NoDoc, lastErr |-> out.err,
               exit |-> ApiFailed(out.err)]

\* isinstance(raw, dict) and "data" in raw
shape_ok(doc) == doc.shape = "object" /\ doc.hasData

(***************************************************************************)
(* Inputs.                                                                 *)
(***************************************************************************)
SeqsUpTo(S, n) == UNION {[1..k -> S] : k \in 0..n}

\* rows for normalize: the first three timestamps fall on 1969-12-31 and
\* (twice) on 1970-01-01, the last on 1970-01-02
RowValues ==
    [timestamp : {-1, 0, 86399999, 86400000}, rhodl_ratio : {1, 2},
     price : {NoPrice, 7}]

\* rows of the API documents of a whole run
ApiRowValues ==
    {[timestamp |-> 0, rhodl_ratio |-> 1, price |-> NoPrice],
     [timestamp |-> 86399999, rhodl_ratio |-> 2, price |-> NoPrice],
     [timestamp |-> 86400000, rhodl_ratio |-> 1, price |-> 7]}

Doc(rows) == [shape |-> "object", hasData |-> TRUE, data |-> rows]

BadDocs == {[shape |-> "list", hasData |-> FALSE, data |-> <<>>],
            [shape |-> "object", hasData |-> FALSE, data |-> <<>>]}

Errors == {"timeout", "http_500"}

Outcomes ==
    {[ok |-> TRUE, doc |-> d, err |-> ""] :
        d \in {Doc(rows) : rows \in SeqsUpTo(ApiRowValues, MaxRecs)} \cup BadDocs}
    \cup {[ok |-> FALSE, doc |-> NoDoc, err |-> e] : e \in Errors}

GoodEnv == [dotenv |-> TRUE, keys |-> Range(RequiredKeys), saFile |-> TRUE]

Envs ==
    {[GoodEnv EXCEPT !.dotenv = FALSE], [GoodEnv EXCEPT !.saFile = FALSE]}
    \cup {[GoodEnv EXCEPT !.keys = k] : k \in SUBSET Range(RequiredKeys)}

\* the settings, the command line (--append) and the gspread version of a run
Invocations ==
    {[settings |-> e, append |-> FALSE, batchClear |-> TRUE] : e \in Envs}
    \cup {[settings |-> GoodEnv, append |-> FALSE, batchClear |-> FALSE],
          [settings |-> GoodEnv, append |-> TRUE, batchClear |-> TRUE]}

ColAValues == {Empty, DateHeader, Str(DateOf(0)), Str(DateOf(86400000))}
ColBValues == {Empty, Num(1)}
ColCValues == {Empty, Str(<<120>>)}

SheetsUpTo(A, B, C, n) ==
    {cells \in SeqsUpTo(A \X B \X C, n) : Trim(cells) = cells}

SinkRecords == {MakeRecord(r) : r \in ApiRowValues}

(***************************************************************************)
(* Actions.  pc is the position of main: "env", "fetch", "shape",          *)
(* "normalize", "open", "write", then "done" or "fatal"; a sink operation  *)
(* called on its own runs from "ready" to "once" to "twice".               *)
(***************************************************************************)
\* the state of a process at position p, holding document doc and records recs
FreshRun(inv, p, doc, recs) ==
    /\ env = inv
    /\ pc = p
    /\ attempt = 0
    /\ responses = <<>>
    /\ lastErr = ""
    /\ raw = doc
    /\ records = recs
    /\ wsPre = <<>>
    /\ rets = <<>>
    /\ sheetOps = 0
    /\ fileWrites = 0
    /\ exitMsg = NoExit
    /\ lastOp = "none"

\* cfg = load_env()
LoadEnv ==
    /\ pc = "env"
    /\ exitMsg' = load_env(env.settings)
    /\ pc' = IF exitMsg' = NoExit THEN "fetch" ELSE "fatal"
    /\ UNCHANGED <<env, attempt, responses, lastErr, raw, records, file, sheet,
                   wsPre, rets, sheetOps, fileWrites, runs, lastOp, atStart>>

\* one requests.get of fetch_rhodl_json, with what the loop does on its outcome
FetchAttempt ==
    /\ pc = "fetch"
    /\ \E out \in Outcomes :
         LET n == attempt + 1
             next == fetch_attempt(n, out, lastErr)
         IN /\ attempt' = n
            /\ responses' = Append(responses, out)
            /\ pc' = next.pc
            /\ raw' = next.raw
            /\ lastErr' = next.lastErr
            /\ exitMsg' = next.exit
    /\ UNCHANGED <<env, records, file, sheet, wsPre, rets, sheetOps, fileWrites,
                   runs, lastOp, atStart>>

\* the shape test of main on the document fetch returned
CheckShape ==
    /\ pc = "shape"
    /\ IF shape_ok(raw)
       THEN pc' = "normalize" /\ exitMsg' = exitMsg
       ELSE pc' = "fatal" /\ exitMsg' = [kind |-> "bad_shape", detail |-> <<>>]
    /\ UNCHANGED <<env, attempt, responses, lastErr, raw, records, file, sheet,
                   wsPre, rets, sheetOps, fileWrites, runs, lastOp, atStart>>

\* records = normalize(raw["data"]); save_json(outfile, records)
NormalizeSave ==
    /\ pc = "normalize"
    /\ records' = normalize(raw.data)
    /\ file' = [written |-> TRUE, data |-> records']
    /\ fileWrites' = fileWrites + 1
    /\ pc' = "open"
    /\ UNCHANGED <<env, attempt, responses, lastErr, raw, sheet, wsPre, rets,
                   sheetOps, exitMsg, runs, lastOp, atStart>>

\* the worksheet open_target_worksheet returns: the one found, or a new one
\* with the header in A1:B1
open_target_worksheet(sh) ==
    IF sh.exists THEN sh
    ELSE [exists |-> TRUE, cells |-> update_AB(<<>>, <<HeaderRow>>)]

OpenWorksheet ==
    /\ pc = "open"
    /\ sheet' = open_target_worksheet(sheet)
    /\ sheetOps' = sheetOps + 1
    /\ pc' = "write"
    /\ UNCHANGED <<env, attempt, responses, lastErr, raw, records, file, wsPre,
                   rets, fileWrites, exitMsg, runs, lastOp, atStart>>

Overwrite(hasBatchClear) ==
    /\ wsPre' = sheet.cells
    /\ sheet' = [sheet EXCEPT
                   !.cells = write_cols_ab_overwrite(sheet.cells, records, hasBatchClear)]
    /\ lastOp' = IF hasBatchClear THEN "overwrite" ELSE "fallback"
    /\ sheetOps' = sheetOps + 1
    /\ rets' = rets

AppendOnly ==
    LET r == append_only_cols_ab(sheet.cells, records)
    IN /\ wsPre' = sheet.cells
       /\ sheet' = [sheet EXCEPT !.cells = r.cells]
       /\ rets' = Append(rets, r.ret)
       /\ lastOp' = "append"
       /\ sheetOps' = sheetOps + 1

\* the branch of main on args.append
WriteSheet ==
    /\ pc = "write"
    /\ IF env.append THEN AppendOnly ELSE Overwrite(env.batchClear)
    /\ pc' = "done"
    /\ runs' = [runs EXCEPT !.completed = @ + 1]
    /\ UNCHANGED <<env, attempt, responses, lastErr, raw, records, file,
                   fileWrites, exitMsg, atStart>>

\* the script is invoked again
NextRun ==
    /\ pc \in {"done", "fatal"}
    /\ runs.started < MaxRuns
    /\ env' \in Invocations
    /\ pc' = "env"
    /\ attempt' = 0
    /\ responses' = <<>>
    /\ lastErr' = ""
    /\ raw' = NoDoc
    /\ records' = <<>>
    /\ wsPre' = <<>>
    /\ rets' = <<>>
    /\ sheetOps' = 0
    /\ fileWrites' = 0
    /\ exitMsg' = NoExit
    /\ lastOp' = "none"
    /\ runs' = [runs EXCEPT !.started = @ + 1]
    /\ atStart' = [file |-> file, sheet |-> sheet]
    /\ UNCHANGED <<file, sheet>>

\* the spreadsheet before the first run: no target worksheet, or one whose
\* columns A and B are empty
InitSheets ==
    {[exists |-> FALSE, cells |-> <<>>]}
    \cup {[exists |-> TRUE, cells |-> [r \in 1..k |-> <<Empty, Empty, Str(<<120>>)>>]] :
            k \in 0..MaxSheetRows}

Init ==
    /\ \E inv \in Invocations : FreshRun(inv, "env", NoDoc, <<>>)
    /\ file = [written |-> FALSE, data |-> <<>>]
    /\ sheet \in InitSheets
    /\ runs = [started |-> 1, completed |-> 0]
    /\ atStart = [file |-> file, sheet |-> sheet]

Next ==
    \/ LoadEnv
    \/ FetchAttempt
    \/ CheckShape
    \/ NormalizeSave
    \/ OpenWorksheet
    \/ WriteSheet
    \/ NextRun

Spec == Init /\ [][Next]_vars

(***************************************************************************)
(* normalize on its own, on every list of rows up to MaxRows.              *)
(***************************************************************************)
DefaultInvocation == [settings |-> GoodEnv, append |-> FALSE, batchClear |-> TRUE]

InitNormalize ==
    /\ \E rows \in SeqsUpTo(RowValues, MaxRows) :
         FreshRun(DefaultInvocation, "normalize", Doc(rows), <<>>)
    /\ file = [written |-> FALSE, data |-> <<>>]
    /\ sheet = [exists |-> FALSE, cells |-> <<>>]
    /\ runs = [started |-> 1, completed |-> 0]
    /\ atStart = [file |-> file, sheet |-> sheet]

SpecNormalize == InitNormalize /\ [][NormalizeSave]_vars

(***************************************************************************)
(* The sink operations on their own, on every worksheet of up to           *)
(* MaxSheetRows rows and every record list of up to MaxRecs records.       *)
(***************************************************************************)
InitSink ==
    /\ \E recs \in SeqsUpTo(SinkRecords, MaxRecs) :
         FreshRun(DefaultInvocation, "ready", NoDoc, recs)
    /\ file = [written |-> FALSE, data |-> <<>>]
    /\ \E c \in SheetsUpTo(ColAValues, ColBValues, ColCValues, MaxSheetRows) :
         sheet = [exists |-> TRUE, cells |-> c]
    /\ runs = [started |-> 1, completed |-> 0]
    /\ atStart = [file |-> file, sheet |-> sheet]

SinkFrame == UNCHANGED <<env, attempt, responses, lastErr, raw, records, file,
                         fileWrites, exitMsg, runs, atStart>>

\* write_cols_ab_overwrite(ws, records) with a gspread that has batch_clear
SinkOverwrite ==
    /\ pc = "ready"
    /\ Overwrite(TRUE)
    /\ pc' = "once"
    /\ SinkFrame

\* write_cols_ab_overwrite(ws, records) with an older gspread
SinkOverwriteFallback ==
    /\ pc = "ready"
    /\ Overwrite(FALSE)
    /\ pc' = "once"
    /\ SinkFrame

\* append_only_cols_ab(ws, records)
SinkAppend ==
    /\ pc = "ready"
    /\ AppendOnly
    /\ pc' = "once"
    /\ SinkFrame

\* append_only_cols_ab(ws, records) a second time, with the same records
SinkAppendAgain ==
    /\ pc = "once"
    /\ lastOp = "append"
    /\ AppendOnly
    /\ pc' = "twice"
    /\ SinkFrame

NextSink ==
    \/ SinkOverwrite
    \/ SinkOverwriteFallback
    \/ SinkAppend
    \/ SinkAppendAgain

SpecSink == InitSink /\ [][NextSink]_vars

(***************************************************************************)
(* Properties.                                                             *)
(***************************************************************************)
Normalized == pc = "open" /\ lastOp = "none"

RowDate(row) == DateOf(row.timestamp)

\* C1: the list normalize returns is sorted ascending by date and no two of
\* its records have the same date.
C1_SortedUnique ==
    Normalized =>
        \A i, j \in 1..Len(records) :
            i < j => /\ ~StrLess(records[j].date, records[i].date)
                     /\ records[i].date # records[j].date

\* three rows given out of date order, two of them on one date
C1_Witness ==
    /\ Normalized
    /\ Len(raw.data) = 3
    /\ StrLess(RowDate(raw.data[3]), RowDate(raw.data[1]))
    /\ RowDate(raw.data[2]) = RowDate(raw.data[1])
    /\ Len(records) = 2

\* C2: for every date some input row converts to, exactly one record is
\* returned for it, and it is the record of the row with the highest index
\* among the rows of that date.
C2_LastRowWins ==
    Normalized =>
        LET rows == raw.data
            sameDate(i) == {k \in 1..Len(rows) : RowDate(rows[k]) = RowDate(rows[i])}
            last(i) == CHOOSE k \in sameDate(i) : \A q \in sameDate(i) : q <= k
            hits(i) == {n \in 1..Len(records) : records[n].date = RowDate(rows[i])}
        IN /\ \A i \in 1..Len(rows) :
                /\ Cardinality(hits(i)) = 1
                /\ \A n \in hits(i) : records[n] = MakeRecord(rows[last(i)])
           /\ \A n \in 1..Len(records) :
                \E i \in 1..Len(rows) : records[n].date = RowDate(rows[i])

\* three rows on one date, the first and the last with different ratios
C2_Witness ==
    /\ Normalized
    /\ Len(raw.data) = 3
    /\ RowDate(raw.data[1]) = RowDate(raw.data[2])
    /\ RowDate(raw.data[2]) = RowDate(raw.data[3])
    /\ raw.data[1].rhodl_ratio # raw.data[3].rhodl_ratio
    /\ raw.data[2].timestamp # raw.data[3].timestamp
    /\ records = <<MakeRecord(raw.data[3])>>

FetchReturned ==
    \/ pc \in {"shape", "normalize", "open", "write", "done"}
    \/ pc = "fatal" /\ exitMsg.kind = "bad_shape"

FetchFailed == pc = "fatal" /\ exitMsg.kind = "api_failed"

\* C3: fetch_rhodl_json issues at most 3 requests; when it returns, the
\* document is that of the first successful attempt, which is the last
\* request made, and there is no error; when all 3 attempts fail the process
\* is terminated with the error of the third attempt.
C3_FetchRetries ==
    /\ attempt <= 3
    /\ Len(responses) = attempt
    /\ FetchReturned =>
         /\ attempt >= 1
         /\ responses[attempt].ok
         /\ raw = responses[attempt].doc
         /\ \A i \in 1..(attempt - 1) : ~responses[i].ok
         /\ exitMsg.kind # "api_failed"
    /\ FetchFailed =>
         /\ attempt = 3
         /\ \A i \in 1..3 : ~responses[i].ok
         /\ exitMsg.detail = <<responses[3].err>>
    /\ (attempt = 3 /\ \A i \in 1..3 : ~responses[i].ok) => FetchFailed
    /\ (pc = "fetch") => \A i \in 1..attempt : ~responses[i].ok

\* all three attempts failed, the third with another error than the first two
C3_Witness ==
    /\ FetchFailed
    /\ responses[1].err = "timeout"
    /\ responses[2].err = "timeout"
    /\ responses[3].err = "http_500"

Overwritten == pc = "once" /\ lastOp \in {"overwrite", "fallback"}

\* C4: after write_cols_ab_overwrite, columns A and B hold the header row in
\* row 1, then one [date, rhodl_ratio] row per record in record order, and
\* every A/B cell below row len(records)+1 is empty.
C4_OverwriteExact ==
    Overwritten =>
        LET n == Len(records) + 1
        IN /\ Len(sheet.cells) >= n
           /\ <<sheet.cells[1][1], sheet.cells[1][2]>> = HeaderRow
           /\ \A k \in 1..Len(records) :
                /\ sheet.cells[k + 1][1] = Str(records[k].date)
                /\ sheet.cells[k + 1][2] = Num(records[k].rhodl_ratio)
           /\ \A r \in (n + 1)..Len(sheet.cells) :
                sheet.cells[r][1] = Empty /\ sheet.cells[r][2] = Empty

\* the prior content had A/B values below the rows the new content takes,
\* on a row that column C keeps alive
C4_Witness ==
    /\ Overwritten
    /\ lastOp = "overwrite"
    /\ records = <<>>
    /\ Len(wsPre) = 2
    /\ wsPre[2][1] # Empty
    /\ wsPre[2][2] # Empty
    /\ wsPre[2][3] # Empty
    /\ Len(sheet.cells) = 2

\* C5: after write_cols_ab_overwrite, on the batch_clear path and on the
\* batch_update fallback path, every cell of column C or beyond has the
\* value it had before.
C5_OtherColumnsKept ==
    Overwritten =>
        \A r \in 1..Max(Len(wsPre), Len(sheet.cells)) :
            RowAt(sheet.cells, r)[3] = RowAt(wsPre, r)[3]

\* the fallback path, on a sheet with values in A, B and C, and records
C5_Witness ==
    /\ Overwritten
    /\ lastOp = "fallback"
    /\ Len(records) = 2
    /\ Len(wsPre) = 2
    /\ \A c \in 1..3 : wsPre[1][c] # Empty
    /\ wsPre[2][3] # Empty

Appended == pc = "once" /\ lastOp = "append"

ColumnA(cells) == {cells[r][1] : r \in 1..Len(cells)}

\* C6: when column A holds the header in row 1 followed by a set D of dates,
\* append_only_cols_ab appends after the last existing row exactly the
\* records whose date is not in D, in the order of records, and returns
\* their number.
C6_AppendsMissing ==
    (Appended /\ wsPre # <<>> /\ wsPre[1][1] = DateHeader) =>
        LET D == {wsPre[r][1] : r \in 2..Len(wsPre)} \ {Empty}
            new == SelectSeq(records, LAMBDA rec : Str(rec.date) \notin D)
        IN /\ Len(sheet.cells) = Len(wsPre) + Len(new)
           /\ SubSeq(sheet.cells, 1, Len(wsPre)) = wsPre
           /\ \A k \in 1..Len(new) :
                sheet.cells[Len(wsPre) + k] =
                    <<Str(new[k].date), Num(new[k].rhodl_ratio), Empty>>
           /\ rets = <<Len(new)>>

\* the header, then one date; of the two records the first has that date
C6_Witness ==
    /\ Appended
    /\ Len(wsPre) = 2
    /\ wsPre[1][1] = DateHeader
    /\ wsPre[2][1] = Str(DateOf(0))
    /\ Len(records) = 2
    /\ records[1].date = DateOf(0)
    /\ records[2].date = DateOf(86400000)
    /\ rets = <<1>>
    /\ Len(sheet.cells) = 3
    /\ sheet.cells[3][1] = Str(DateOf(86400000))

UniqueDates(recs) ==
    \A i, j \in 1..Len(recs) : i # j => recs[i].date # recs[j].date

\* C8: for records with unique dates, a second append_only_cols_ab with the
\* same records leaves the worksheet as the first one left it, and returns 0.
C8_AppendIdempotent ==
    (pc = "twice" /\ UniqueDates(records)) =>
        /\ sheet.cells = wsPre
        /\ Len(rets) = 2
        /\ rets[2] = 0

\* the first run appended two rows to a sheet that was not empty
C8_Witness ==
    /\ pc = "twice"
    /\ UniqueDates(records)
    /\ Len(records) = 2
    /\ rets = <<2, 0>>
    /\ atStart.sheet.cells # <<>>

\* C9: no row appended by append_only_cols_ab has a date that was a value of
\* column A before the run, whatever row 1 of column A holds.
C9_NoPresentDateAppended ==
    Appended =>
        \A r \in (Len(wsPre) + 1)..Len(sheet.cells) :
            sheet.cells[r][1] \notin ColumnA(wsPre)

ConfigBad(e) ==
    \/ ~e.dotenv
    \/ \E i \in 1..3 : RequiredKeys[i] \notin e.keys
    \/ ~e.saFile

NoSideEffects ==
    /\ fileWrites = 0
    /\ sheetOps = 0
    /\ file = atStart.file
    /\ sheet = atStart.sheet

\* C7: a run whose settings lack a required value (or the file they name)
\* exits fatally, naming the missing keys, with no HTTP request, no file
\* written and no spreadsheet operation; a run whose fetch exhausts its
\* retries, or whose response is not an object with a data field, exits
\* fatally with no file written and no spreadsheet operation.
C7_FatalStopsPipeline ==
    /\ ConfigBad(env.settings) =>
         /\ pc \in {"env", "fatal"}
         /\ attempt = 0
         /\ NoSideEffects
         /\ pc = "fatal" =>
              /\ exitMsg.kind \in {"no_dotenv", "missing_keys", "no_service_account"}
              /\ \A i \in 1..3 :
                    (env.settings.dotenv /\ RequiredKeys[i] \notin env.settings.keys)
                        => RequiredKeys[i] \in Range(exitMsg.detail)
    /\ (attempt = 3 /\ \A i \in 1..3 : ~responses[i].ok) =>
         pc = "fatal" /\ exitMsg.kind = "api_failed" /\ NoSideEffects
    /\ (raw # NoDoc /\ ~(raw.shape = "object" /\ raw.hasData)) =>
         /\ pc \in {"shape", "fatal"}
         /\ NoSideEffects
         /\ pc = "fatal" => exitMsg.kind = "bad_shape"
    /\ pc = "fatal" => (exitMsg # NoExit /\ NoSideEffects)

\* the second run lacks COINGLASS_API_KEY, after a first run that wrote the
\* file and the worksheet
C7_Witness ==
    /\ pc = "fatal"
    /\ runs.completed = 1
    /\ "COINGLASS_API_KEY" \notin env.settings.keys
    /\ exitMsg = [kind |-> "missing_keys", detail |-> <<"COINGLASS_API_KEY">>]
    /\ file.written
    /\ Len(sheet.cells) > 1

IsDigit(c) == c >= 48 /\ c <= 57

\* YYYY-MM-DD
IsIsoDate(cell) ==
    /\ cell.kind = "str"
    /\ Len(cell.v) = 10
    /\ \A i \in 1..10 : IF i \in {5, 8} THEN cell.v[i] = 45 ELSE IsDigit(cell.v[i])

\* C10: once a run has completed, row 1 of columns A/B is the header and
\* the non-empty values of column A below row 1 are pairwise distinct dates.
C10_HeaderAndDistinctDates ==
    runs.completed >= 1 =>
        /\ sheet.exists
        /\ Len(sheet.cells) >= 1
        /\ <<sheet.cells[1][1], sheet.cells[1][2]>> = HeaderRow
        /\ \A r \in 2..Len(sheet.cells) :
              sheet.cells[r][1] # Empty =>
                  /\ IsIsoDate(sheet.cells[r][1])
                  /\ \A q \in 2..Len(sheet.cells) :
                        q # r => sheet.cells[q][1] # sheet.cells[r][1]

\* two completed runs, the second an append that found one date present and
\* added one, below a row kept alive by column C
C10_Witness ==
    /\ runs.completed = 2
    /\ pc = "done"
    /\ lastOp = "append"
    /\ Len(records) = 2
    /\ rets = <<1>>
    /\ Len(wsPre) >= 3
    /\ wsPre[2][1] = Empty

====
